---- MODULE Spec2Model ----
(***************************************************************************)
(* Model of the cogito-meetings server (src/server.js, PostgreSQL variant, *)
(* lines 279-566) over the schema of migrations/001_initial_schema.sql.    *)
(*                                                                         *)
(* Every handler of the server is an async function: between two awaits    *)
(* it runs alone, and at each await (a store query, an HTTP call) other    *)
(* handlers may run.  Each handler is therefore a process whose steps are  *)
(* its awaited calls; a store query is atomic at the store.                *)
(***************************************************************************)
EXTENDS Integers, FiniteSets, Sequences, TLC

\* ------------------------------------------------------------------ bounds
MaxTurns == 3       \* turn events received on the transcript WebSocket
MaxRacers == 2      \* of these, the events whose handlers may all overlap
MaxCreates == 2     \* POST /api/create-bot requests
MaxHooks == 2       \* POST /webhook notifications
MaxClock == 2       \* the largest value the wall clock takes (it starts at 1)

\* ------------------------------------------------------------------ inputs
Undefined == "<undefined>"      \* a property the JSON body does not carry
BotIds == {"bot-a", "bot-b"}    \* ids the provisioning API hands out
Speakers == {"Dana", "Lee"}     \* transcript.speaker
Texts == {"Let's start"}        \* non-empty transcript.text
Urls == {"https://call/abc"}    \* req.body.meeting_url
ClientIds == {7}                \* req.body.client_id
Payloads == {"transcript-1", "transcript-2"}  \* body of the transcript fetch
Statuses == {"joining", "in_progress", "completed", "failed"}

TurnIds == 1..MaxTurns
Racers == {h \in TurnIds : h <= MaxRacers}
CreateIds == 1..MaxCreates
HookIds == 1..MaxHooks

VARIABLES
    blocks,           \* table blocks: set of block_id
    block_meetings,   \* table block_meetings: set of rows
    block_attendees,  \* table block_attendees: set of rows
    turns,            \* table turns: set of rows
    block_turns,      \* table block_turns: set of rows
    seqs,             \* the store's id generators (uuid, BIGSERIAL)
    now,              \* the wall clock (new Date(), NOW())
    bots,             \* bots the provisioning API has created
    th,               \* turn handlers: ws.on('message') invocations
    cr,               \* create handlers: POST /api/create-bot invocations
    wh,               \* webhook handlers: POST /webhook invocations
    mg                \* the migration runner: node run-migration

store == <<blocks, block_meetings, block_attendees, turns, block_turns, seqs>>
vars == <<blocks, block_meetings, block_attendees, turns, block_turns, seqs,
          now, bots, th, cr, wh, mg>>

\* ------------------------------------------------------------------ store
\* SELECT block_id FROM block_meetings WHERE recall_bot_id = $1 (rows[0])
MeetingRows(bot) == {m \in block_meetings : m.recall_bot_id = bot}

\* (mutant) the SELECT by name alone.
AttendeeRowsByName(blockId, speakerName) ==
    {a \in block_attendees : a.name = speakerName}

\* SELECT * FROM block_attendees WHERE block_id = $1 AND name = $2
AttendeeRows(blockId, speakerName) ==
    {a \in block_attendees : a.block_id = blockId /\ a.name = speakerName}

SetMax(S) == CHOOSE x \in S : \A y \in S : y <= x

\* (mutant) the next order without the + 1.
NextOrderNoIncrement(blockId) ==
    LET orders == {p.sequence_order : p \in {q \in block_turns : q.block_id = blockId}}
    IN  IF orders = {} THEN 0 ELSE SetMax(orders)

\* SELECT COALESCE(MAX(sequence_order), 0) + 1 FROM block_turns WHERE block_id = $1
NextOrder(blockId) ==
    LET orders == {p.sequence_order : p \in {q \in block_turns : q.block_id = blockId}}
    IN  (IF orders = {} THEN 0 ELSE SetMax(orders)) + 1

\* ------------------------------------------------------------------ turn handler
ThIdle == [pc |-> "idle", bot_id |-> Undefined, speaker |-> Undefined,
           text |-> Undefined, block_id |-> 0, attendee |-> 0, turn_id |-> 0,
           next_order |-> 0, err |-> "none"]

\* Events are received in the order of their index.
TurnReceivable(h) ==
    /\ th[h].pc = "idle"
    /\ \A g \in TurnIds : g < h => th[g].pc # "idle"

\* The handler is between the receipt of its message and its return.
InFlight(h) == th[h].pc \notin {"idle", "done", "closed"}

\* (mutant) no catch: the rejection ends the process, and with it every
\* handler in flight and every later event.
ThCaughtCrashes(h, why) ==
    th' = [g \in TurnIds |->
             IF g = h \/ th[g].pc # "done"
             THEN [th[g] EXCEPT !.pc = "done", !.err = why]
             ELSE th[g]]

\* catch (error) { console.error(...) }: the handler returns, the event is lost.
ThCaught(h, why) == th' = [th EXCEPT ![h].pc = "done", ![h].err = why]

\* ws.on('message'): JSON.parse succeeded; the meeting lookup is awaited.
ReceiveTurn(h, bot, speaker, text) ==
    /\ TurnReceivable(h)
    /\ th' = [th EXCEPT ![h] = [ThIdle EXCEPT !.pc = "lookup", !.bot_id = bot,
                                              !.speaker = speaker, !.text = text]]
    /\ UNCHANGED <<store, now, bots, cr, wh, mg>>

\* ws.on('message'): JSON.parse throws on a message that is not JSON.
ReceiveUnparseable(h) ==
    /\ TurnReceivable(h)
    /\ ThCaught(h, "parse")
    /\ UNCHANGED <<store, now, bots, cr, wh, mg>>

\* (mutant) the close that cancels the handlers in flight.
CloseAborts ==
    /\ \E h \in TurnIds : th[h].pc = "idle"
    /\ th' = [h \in TurnIds |->
                IF th[h].pc = "idle" THEN [th[h] EXCEPT !.pc = "closed"]
                ELSE IF th[h].pc # "done"
                     THEN [th[h] EXCEPT !.pc = "done", !.err = "closed"]
                     ELSE th[h]]
    /\ UNCHANGED <<store, now, bots, cr, wh, mg>>

\* ws.on('close'): the connection is gone and the handler logs it.  The events
\* not received by then are never received; nothing else changes.
Close ==
    /\ \E h \in TurnIds : th[h].pc = "idle"
    /\ th' = [h \in TurnIds |->
                IF th[h].pc = "idle" THEN [th[h] EXCEPT !.pc = "closed"] ELSE th[h]]
    /\ UNCHANGED <<store, now, bots, cr, wh, mg>>

\* (mutant) the lookup without the check of its result.
LookupMeetingNoCheck(h) ==
    /\ th[h].pc = "lookup"
    /\ th' = [th EXCEPT ![h].pc = "attSelect"]
    /\ UNCHANGED <<store, now, bots, cr, wh, mg>>

\* (mutant) the network calls made synchronously: while one is pending the
\* process runs nothing else, and the answer of the lookup is not taken up.
LookupMeetingBlocked(h) ==
    /\ th[h].pc = "lookup"
    /\ \A r \in CreateIds : cr[r].pc # "provision"
    /\ \A w \in HookIds : wh[w].pc # "fetch"
    /\ IF MeetingRows(th[h].bot_id) = {}
       THEN th' = [th EXCEPT ![h].pc = "done", ![h].err = "no meeting"]
       ELSE \E m \in MeetingRows(th[h].bot_id) :
                th' = [th EXCEPT ![h].pc = "attSelect", ![h].block_id = m.block_id]
    /\ UNCHANGED <<store, now, bots, cr, wh, mg>>

\* (mutant) the lookup that also marks the meeting as running.
LookupMeetingMarksRunning(h) ==
    /\ th[h].pc = "lookup"
    /\ IF MeetingRows(th[h].bot_id) = {}
       THEN /\ th' = [th EXCEPT ![h].pc = "done", ![h].err = "no meeting"]
            /\ UNCHANGED block_meetings
       ELSE /\ \E m \in MeetingRows(th[h].bot_id) :
                   th' = [th EXCEPT ![h].pc = "attSelect", ![h].block_id = m.block_id]
            /\ block_meetings' =
                  {IF m.recall_bot_id = th[h].bot_id
                   THEN [m EXCEPT !.status = "in_progress"] ELSE m : m \in block_meetings}
    /\ UNCHANGED <<blocks, block_attendees, turns, block_turns, seqs,
                   now, bots, cr, wh, mg>>

\* The meeting lookup returns: no row drops the event, a row gives the block.
LookupMeeting(h) ==
    /\ th[h].pc = "lookup"
    /\ IF MeetingRows(th[h].bot_id) = {}
       THEN th' = [th EXCEPT ![h].pc = "done", ![h].err = "no meeting"]
       ELSE \E m \in MeetingRows(th[h].bot_id) :
                th' = [th EXCEPT ![h].pc = "attSelect", ![h].block_id = m.block_id]
    /\ UNCHANGED <<store, now, bots, cr, wh, mg>>

\* getOrCreateAttendee: the SELECT returns; an existing row is the attendee.
AttendeeSelect(h) ==
    /\ th[h].pc = "attSelect"
    /\ LET rows == AttendeeRows(th[h].block_id, th[h].speaker)
       IN  IF rows # {}
           THEN \E a \in rows :
                    th' = [th EXCEPT ![h].pc = "turnInsert", ![h].attendee = a.id]
           ELSE th' = [th EXCEPT ![h].pc = "attInsert"]
    /\ UNCHANGED <<store, now, bots, cr, wh, mg>>

\* (mutant) the insert with a story that does not carry the speaker's name.
NewAttendeeFixedStory(id, blockId, speakerName) ==
    [id |-> id, block_id |-> blockId, name |-> speakerName,
     story |-> <<"A participant", " joined the meeting.">>,
     speaking_time_seconds |-> 0, user_id |-> 0]

\* The row INSERT INTO block_attendees (block_id, name, story) creates.
NewAttendee(id, blockId, speakerName) ==
    [id |-> id, block_id |-> blockId, name |-> speakerName,
     story |-> <<speakerName, " joined the meeting.">>,
     speaking_time_seconds |-> 0, user_id |-> 0]

\* (mutant) block_attendees without its unique index.
AttendeeConflictNoIndex(blockId, speakerName) == FALSE

\* idx_block_attendees_unique: the insert of a second (block_id, name) row fails.
AttendeeConflict(blockId, speakerName) == AttendeeRows(blockId, speakerName) # {}

\* getOrCreateAttendee: the INSERT returns the new row, or throws on the
\* unique index; the throw is caught by the message handler.
AttendeeInsert(h) ==
    /\ th[h].pc = "attInsert"
    /\ IF AttendeeConflict(th[h].block_id, th[h].speaker)
       THEN /\ ThCaught(h, "duplicate attendee")
            /\ UNCHANGED store
       ELSE LET id == seqs.attendee + 1
            IN  /\ block_attendees' = block_attendees \cup
                        {NewAttendee(id, th[h].block_id, th[h].speaker)}
                /\ seqs' = [seqs EXCEPT !.attendee = id]
                /\ th' = [th EXCEPT ![h].pc = "turnInsert", ![h].attendee = id]
                /\ UNCHANGED <<blocks, block_meetings, turns, block_turns>>
    /\ UNCHANGED <<now, bots, cr, wh, mg>>

\* INSERT INTO turns: content TEXT NOT NULL rejects a missing text (null),
\* and accepts the empty string.
TurnInsert(h) ==
    /\ th[h].pc = "turnInsert"
    /\ IF th[h].text = Undefined
       THEN /\ ThCaught(h, "null content")
            /\ UNCHANGED store
       ELSE LET id == seqs.turn + 1
            IN  /\ turns' = turns \cup
                        {[turn_id |-> id, participant_id |-> th[h].attendee,
                          content |-> th[h].text, source_type |-> "recall_bot",
                          bot_id |-> th[h].bot_id]}
                /\ seqs' = [seqs EXCEPT !.turn = id]
                /\ th' = [th EXCEPT ![h].pc = "seqRead", ![h].turn_id = id]
                /\ UNCHANGED <<blocks, block_meetings, block_attendees, block_turns>>
    /\ UNCHANGED <<now, bots, cr, wh, mg>>

\* The read of the next sequence_order of the block returns.
SequenceRead(h) ==
    /\ th[h].pc = "seqRead"
    /\ th' = [th EXCEPT ![h].pc = "placeInsert",
                        ![h].next_order = NextOrder(th[h].block_id)]
    /\ UNCHANGED <<store, now, bots, cr, wh, mg>>

\* INSERT INTO block_turns (block_id, turn_id, sequence_order).
PlacementInsert(h) ==
    /\ th[h].pc = "placeInsert"
    /\ block_turns' = block_turns \cup
            {[block_id |-> th[h].block_id, turn_id |-> th[h].turn_id,
              sequence_order |-> th[h].next_order]}
    /\ th' = [th EXCEPT ![h].pc = "done"]
    /\ UNCHANGED <<blocks, block_meetings, block_attendees, turns, seqs,
                   now, bots, cr, wh, mg>>

\* A pool.query of the handler rejects (connection lost, timeout): caught.
TurnStoreError(h) ==
    /\ th[h].pc \in {"lookup", "attSelect", "attInsert", "turnInsert",
                     "seqRead", "placeInsert"}
    /\ ThCaught(h, "store error")
    /\ UNCHANGED <<store, now, bots, cr, wh, mg>>

\* ------------------------------------------------------------------ create handler
CrIdle == [pc |-> "idle", meeting_url |-> Undefined, client_id |-> 0,
           bot_id |-> Undefined,
           block_id |-> 0, resp |-> "none"]

CreateReceivable(r) ==
    /\ cr[r].pc = "idle"
    /\ \A q \in CreateIds : q < r => cr[q].pc # "idle"

\* res.status(...).json(...): the request completes with one response.
CrRespond(r, resp) == cr' = [cr EXCEPT ![r].pc = "done", ![r].resp = resp]

\* (mutant) the handler without the meeting_url check.
ReceiveCreateUnchecked(r, url, client) ==
    /\ CreateReceivable(r)
    /\ cr' = [cr EXCEPT ![r].pc = "provision", ![r].meeting_url = url,
                        ![r].client_id = client]
    /\ UNCHANGED <<store, now, bots, th, wh, mg>>

\* app.post('/api/create-bot'): a body without meeting_url is answered 400;
\* otherwise the provisioning call is made and awaited.
ReceiveCreate(r, url, client) ==
    /\ CreateReceivable(r)
    /\ IF url = Undefined
       THEN CrRespond(r, "400 meeting_url is required")
       ELSE cr' = [cr EXCEPT ![r].pc = "provision", ![r].meeting_url = url,
                             ![r].client_id = client]
    /\ UNCHANGED <<store, now, bots, th, wh, mg>>

\* The provisioning call answers OK with botData: the block insert is awaited.
ProvisionOk(r, bot) ==
    /\ cr[r].pc = "provision"
    /\ bots' = bots \cup {bot}
    /\ cr' = [cr EXCEPT ![r].pc = "blockInsert", ![r].bot_id = bot]
    /\ UNCHANGED <<store, now, th, wh, mg>>

\* (mutant) the non-OK branch without its return: the handler goes on.
ProvisionNotOkGoesOn(r) ==
    /\ cr[r].pc = "provision"
    /\ cr' = [cr EXCEPT ![r].pc = "blockInsert"]
    /\ UNCHANGED <<store, now, bots, th, wh, mg>>

\* The provisioning call answers with a non-OK status: it is passed on.
ProvisionNotOk(r) ==
    /\ cr[r].pc = "provision"
    /\ CrRespond(r, "recall status: Failed to create bot")
    /\ UNCHANGED <<store, now, bots, th, wh, mg>>

\* The provisioning call rejects (network error): caught, answered 500.
ProvisionThrows(r) ==
    /\ cr[r].pc = "provision"
    /\ CrRespond(r, "500 Internal server error")
    /\ UNCHANGED <<store, now, bots, th, wh, mg>>

\* INSERT INTO blocks ... RETURNING *: the meeting insert is awaited.
BlockInsert(r) ==
    /\ cr[r].pc = "blockInsert"
    /\ LET id == seqs.block + 1
       IN  /\ blocks' = blocks \cup {id}
           /\ seqs' = [seqs EXCEPT !.block = id]
           /\ cr' = [cr EXCEPT ![r].pc = "meetingInsert", ![r].block_id = id]
    /\ UNCHANGED <<block_meetings, block_attendees, turns, block_turns,
                   now, bots, th, wh, mg>>

\* (mutant) the insert with another initial status.
NewMeetingInProgress(blockId, bot, url, client) ==
    [block_id |-> blockId, recall_bot_id |-> bot, meeting_url |-> url,
     invited_by_user_id |-> client, status |-> "in_progress",
     full_transcript |-> Undefined, ended_at |-> 0, updated_at |-> now]

\* The row INSERT INTO block_meetings (...) creates; the other columns take
\* their defaults.
NewMeeting(blockId, bot, url, client) ==
    [block_id |-> blockId, recall_bot_id |-> bot, meeting_url |-> url,
     invited_by_user_id |-> client, status |-> "joining",
     full_transcript |-> Undefined, ended_at |-> 0, updated_at |-> now]

\* (mutant) block_meetings without UNIQUE on recall_bot_id.
MeetingConflictNoUnique(blockId, bot) ==
    \/ \E m \in block_meetings : m.block_id = blockId
    \/ blockId \notin blocks

\* block_meetings: block_id is the primary key, recall_bot_id is UNIQUE, and
\* block_id REFERENCES blocks.
MeetingConflict(blockId, bot) ==
    \/ \E m \in block_meetings : m.block_id = blockId \/ m.recall_bot_id = bot
    \/ blockId \notin blocks

\* INSERT INTO block_meetings ... RETURNING *: on success the request is
\* answered with bot, block and meeting; a constraint violation throws and is
\* answered 500 by the catch, which deletes nothing.
MeetingInsert(r) ==
    /\ cr[r].pc = "meetingInsert"
    /\ IF MeetingConflict(cr[r].block_id, cr[r].bot_id)
       THEN /\ CrRespond(r, "500 Internal server error")
            /\ UNCHANGED store
       ELSE /\ block_meetings' = block_meetings \cup
                    {NewMeeting(cr[r].block_id, cr[r].bot_id, cr[r].meeting_url,
                                cr[r].client_id)}
            /\ CrRespond(r, "200 bot, meeting_block, meeting")
            /\ UNCHANGED <<blocks, block_attendees, turns, block_turns, seqs>>
    /\ UNCHANGED <<now, bots, th, wh, mg>>

\* A pool.query of the request rejects: caught, answered 500.
CreateStoreError(r) ==
    /\ cr[r].pc \in {"blockInsert", "meetingInsert"}
    /\ CrRespond(r, "500 Internal server error")
    /\ UNCHANGED <<store, now, bots, th, wh, mg>>

\* ------------------------------------------------------------------ create handler, Supabase server
\* The handler of the Supabase server (server.js:122-221) is the one above up
\* to its inserts: the store client returns an error instead of throwing, and
\* a failed meeting insert is followed by the delete of the block.

\* The meeting insert returns its row, and the request is answered with bot,
\* block and meeting; or it returns an error (a constraint, the store), and
\* the delete of the block is awaited.
SbMeetingInsert(r) ==
    /\ cr[r].pc = "meetingInsert"
    /\ \/ /\ ~MeetingConflict(cr[r].block_id, cr[r].bot_id)
          /\ block_meetings' = block_meetings \cup
                {NewMeeting(cr[r].block_id, cr[r].bot_id, cr[r].meeting_url,
                            cr[r].client_id)}
          /\ CrRespond(r, "200 bot, meeting_block, meeting")
          /\ UNCHANGED <<blocks, block_attendees, turns, block_turns, seqs>>
       \/ /\ cr' = [cr EXCEPT ![r].pc = "cleanup"]
          /\ UNCHANGED store
    /\ UNCHANGED <<now, bots, th, wh, mg>>

\* DELETE FROM blocks WHERE block_id = $1, with ON DELETE CASCADE to
\* block_meetings, block_attendees and block_turns.
DeleteBlocks(ids) ==
    /\ blocks' = blocks \ ids
    /\ block_meetings' = {m \in block_meetings : m.block_id \notin ids}
    /\ block_attendees' = {a \in block_attendees : a.block_id \notin ids}
    /\ block_turns' = {p \in block_turns : p.block_id \notin ids}
    /\ UNCHANGED <<turns, seqs>>

\* (mutant) the clean-up that deletes by the bot id of the request.
SbCleanupByBot(r) ==
    /\ cr[r].pc = "cleanup"
    /\ DeleteBlocks({cr[r].block_id} \cup {m.block_id : m \in MeetingRows(cr[r].bot_id)})
    /\ CrRespond(r, "500 Failed to create meeting record")
    /\ UNCHANGED <<now, bots, th, wh, mg>>

\* Clean up block: the block of the request is deleted, then answered 500.
SbCleanup(r) ==
    /\ cr[r].pc = "cleanup"
    /\ DeleteBlocks({cr[r].block_id})
    /\ CrRespond(r, "500 Failed to create meeting record")
    /\ UNCHANGED <<now, bots, th, wh, mg>>

\* The delete returns an error, which the handler does not look at.
SbCleanupError(r) ==
    /\ cr[r].pc = "cleanup"
    /\ CrRespond(r, "500 Failed to create meeting record")
    /\ UNCHANGED <<store, now, bots, th, wh, mg>>

\* ------------------------------------------------------------------ webhook handler
WhIdle == [pc |-> "idle", bot_id |-> Undefined, status |-> Undefined,
           ended_at |-> 0, full_transcript |-> Undefined, resp |-> "none"]

HookReceivable(w) ==
    /\ wh[w].pc = "idle"
    /\ \A v \in HookIds : v < w => wh[v].pc # "idle"

\* res.status(...).send(...): the handler returns and updateData is gone; the
\* event stays known (it is logged on receipt).
WhRespond(w, resp) ==
    wh' = [wh EXCEPT ![w] = [WhIdle EXCEPT !.pc = "done", !.resp = resp,
                                           !.bot_id = wh[w].bot_id,
                                           !.status = wh[w].status]]

\* (mutant) the handler without if (event.bot_id).
ReceiveHookNoBotCheck(w, bot, status) ==
    /\ HookReceivable(w)
    /\ wh' = [wh EXCEPT ![w] =
                [WhIdle EXCEPT !.bot_id = bot, !.status = status,
                   !.pc = IF status = "completed" THEN "fetch" ELSE "update",
                   !.ended_at = IF status = "completed" THEN now ELSE 0]]
    /\ UNCHANGED <<store, now, bots, th, cr, mg>>

\* app.post('/webhook'): an event without bot_id is acknowledged at once; a
\* completed event takes ended_at from the clock and awaits the transcript
\* fetch; any other event awaits the UPDATE.
ReceiveHook(w, bot, status) ==
    /\ HookReceivable(w)
    /\ IF bot = Undefined
       THEN WhRespond(w, "200 OK")
       ELSE wh' = [wh EXCEPT ![w] =
                     [WhIdle EXCEPT !.bot_id = bot, !.status = status,
                        !.pc = IF status = "completed" THEN "fetch" ELSE "update",
                        !.ended_at = IF status = "completed" THEN now ELSE 0]]
    /\ UNCHANGED <<store, now, bots, th, cr, mg>>

\* The transcript fetch answers OK: its body goes into updateData.
FetchOk(w, payload) ==
    /\ wh[w].pc = "fetch"
    /\ wh' = [wh EXCEPT ![w].pc = "update", ![w].full_transcript = payload]
    /\ UNCHANGED <<store, now, bots, th, cr, mg>>

\* (mutant) the fetch failure escapes to the outer catch: answered 500.
FetchFailsAborts(w) ==
    /\ wh[w].pc = "fetch"
    /\ WhRespond(w, "500 Error processing webhook")
    /\ UNCHANGED <<store, now, bots, th, cr, mg>>

\* The transcript fetch answers non-OK, or rejects: logged, nothing stored.
FetchFails(w) ==
    /\ wh[w].pc = "fetch"
    /\ wh' = [wh EXCEPT ![w].pc = "update"]
    /\ UNCHANGED <<store, now, bots, th, cr, mg>>

\* (mutant) the UPDATE without the full_transcript key.
UpdatedMeetingNoTranscript(m, w) ==
    [m EXCEPT !.status = wh[w].status,
              !.updated_at = now,
              !.ended_at = IF wh[w].status = "completed" THEN wh[w].ended_at ELSE @]

\* (mutant) the UPDATE without the ended_at key.
UpdatedMeetingNoEndedAt(m, w) ==
    [m EXCEPT !.status = wh[w].status,
              !.updated_at = now,
              !.full_transcript = IF wh[w].full_transcript # Undefined
                                  THEN wh[w].full_transcript ELSE @]

\* (mutant) the UPDATE that always carries the full_transcript key.
UpdatedMeetingTranscriptKey(m, w) ==
    [m EXCEPT !.status = wh[w].status,
              !.updated_at = now,
              !.ended_at = IF wh[w].status = "completed" THEN wh[w].ended_at ELSE @,
              !.full_transcript = wh[w].full_transcript]

\* (mutant) the UPDATE that also sets meeting_url, which the event lacks.
UpdatedMeetingSetsUrl(m, w) ==
    [m EXCEPT !.status = wh[w].status,
              !.updated_at = now,
              !.ended_at = IF wh[w].status = "completed" THEN wh[w].ended_at ELSE @,
              !.full_transcript = IF wh[w].full_transcript # Undefined
                                  THEN wh[w].full_transcript ELSE @,
              !.meeting_url = Undefined]

\* UPDATE block_meetings SET <the keys of updateData> WHERE recall_bot_id = $1,
\* with the trigger update_block_meetings_updated_at.
UpdatedMeeting(m, w) ==
    [m EXCEPT !.status = wh[w].status,
              !.updated_at = now,
              !.ended_at = IF wh[w].status = "completed" THEN wh[w].ended_at ELSE @,
              !.full_transcript = IF wh[w].full_transcript # Undefined
                                  THEN wh[w].full_transcript ELSE @]

\* (mutant) an upsert: an UPDATE that matches no row inserts one.
HookUpdateUpsert(w) ==
    /\ wh[w].pc = "update"
    /\ block_meetings' =
          IF MeetingRows(wh[w].bot_id) = {}
          THEN block_meetings \cup
                  {[block_id |-> 0, recall_bot_id |-> wh[w].bot_id,
                    meeting_url |-> Undefined, invited_by_user_id |-> 0,
                    status |-> wh[w].status, full_transcript |-> Undefined,
                    ended_at |-> 0, updated_at |-> now]}
          ELSE {IF m.recall_bot_id = wh[w].bot_id THEN UpdatedMeeting(m, w) ELSE m :
                  m \in block_meetings}
    /\ WhRespond(w, "200 OK")
    /\ UNCHANGED <<blocks, block_attendees, turns, block_turns, seqs,
                   now, bots, th, cr, mg>>

\* The UPDATE returns (whatever the number of rows it matched): 200 OK.
HookUpdate(w) ==
    /\ wh[w].pc = "update"
    /\ block_meetings' =
          {IF m.recall_bot_id = wh[w].bot_id THEN UpdatedMeeting(m, w) ELSE m :
             m \in block_meetings}
    /\ WhRespond(w, "200 OK")
    /\ UNCHANGED <<blocks, block_attendees, turns, block_turns, seqs,
                   now, bots, th, cr, mg>>

\* The UPDATE rejects: caught, answered 500.
HookStoreError(w) ==
    /\ wh[w].pc = "update"
    /\ WhRespond(w, "500 Error processing webhook")
    /\ UNCHANGED <<store, now, bots, th, cr, mg>>

\* ------------------------------------------------------------------ migration runner
\* The runner (DEPLOY.md:104-209) runs the schema migration and then main of
\* migrations/migrate-data.js.  ran and failed are the data steps that were
\* started and those whose error was caught and logged.
MgIdle == [pc |-> "idle", schema |-> "none", ran |-> {}, failed |-> {},
           report |-> "none"]

DataSteps == {"users", "participants", "blocks", "turns", "meeting data",
              "sequences"}

\* process.exit(1) of the runner, or its last console.log and exit code 0.
MgExit(report) == mg' = [mg EXCEPT !.pc = "done", !.report = report]

\* main of the runner: without DATABASE_URL it exits with 1; otherwise it
\* awaits runSchemaMigration.
StartMigration(hasUrl) ==
    /\ mg.pc = "idle"
    /\ IF hasUrl THEN mg' = [mg EXCEPT !.pc = "schema"] ELSE MgExit("exit 1")
    /\ UNCHANGED <<store, now, bots, th, cr, wh>>

\* runSchemaMigration returns true, or catches and returns false: the runner
\* then exits with 1 before runDataMigration.
runSchemaMigration(ok) ==
    /\ mg.pc = "schema"
    /\ IF ok
       THEN mg' = [mg EXCEPT !.pc = "connect", !.schema = "ok"]
       ELSE mg' = [mg EXCEPT !.pc = "done", !.schema = "failed", !.report = "exit 1"]
    /\ UNCHANGED <<store, now, bots, th, cr, wh>>

\* main of migrate-data.js: the connection test; its rejection goes to the
\* catch of main, which logs it, and on to finally.
TestConnection(ok) ==
    /\ mg.pc = "connect"
    /\ mg' = [mg EXCEPT !.pc = IF ok THEN "users" ELSE "end"]
    /\ UNCHANGED <<store, now, bots, th, cr, wh>>

\* A step of the data migration: it catches its own error, logs it and
\* returns, and main goes on to the next step.
DataStep(step, next, ok) ==
    /\ mg.pc = step
    /\ mg' = [mg EXCEPT !.pc = next, !.ran = @ \cup {step},
                        !.failed = IF ok THEN @ ELSE @ \cup {step}]
    /\ UNCHANGED <<store, now, bots, th, cr, wh>>

migrateUsers(ok) == DataStep("users", "participants", ok)
migrateParticipants(ok) == DataStep("participants", "blocks", ok)
migrateBlocks(ok) == DataStep("blocks", "turns", ok)
migrateTurns(ok) == DataStep("turns", "meeting data", ok)
migrateMeetingData(ok) == DataStep("meeting data", "sequences", ok)
resetSequences(ok) == DataStep("sequences", "end", ok)

\* finally { await renderDB.end() }: main returns, runDataMigration returns
\* true and the runner reports the full success; a rejection of end() leaves
\* main, runDataMigration returns false and the runner exits with 1.
EndPool(ok) ==
    /\ mg.pc = "end"
    /\ IF ok THEN MgExit("Full migration completed successfully") ELSE MgExit("exit 1")
    /\ UNCHANGED <<store, now, bots, th, cr, wh>>

\* ------------------------------------------------------------------ clock
Tick ==
    /\ now < MaxClock
    /\ now' = now + 1
    /\ UNCHANGED <<store, bots, th, cr, wh, mg>>

\* ------------------------------------------------------------------ specifications
NoHandlers ==
    /\ th = [h \in TurnIds |-> ThIdle]
    /\ cr = [r \in CreateIds |-> CrIdle]
    /\ wh = [w \in HookIds |-> WhIdle]
    /\ mg = MgIdle

\* The server has started on an empty database.
Init ==
    /\ blocks = {}
    /\ block_meetings = {}
    /\ block_attendees = {}
    /\ turns = {}
    /\ block_turns = {}
    /\ seqs = [block |-> 0, attendee |-> 0, turn |-> 0]
    /\ now = 1
    /\ bots = {}
    /\ NoHandlers

\* Two create-bot requests have completed with 200: two sessions, each with
\* its meeting record in status joining.
InitMeetings ==
    /\ blocks = {1, 2}
    /\ now = 1
    /\ block_meetings = {NewMeeting(1, "bot-a", "https://call/abc", 7),
                         NewMeeting(2, "bot-b", "https://call/abc", 7)}
    /\ block_attendees = {}
    /\ turns = {}
    /\ block_turns = {}
    /\ seqs = [block |-> 2, attendee |-> 0, turn |-> 0]
    /\ bots = {"bot-a", "bot-b"}
    /\ NoHandlers

TurnSteps(h) ==
    \/ LookupMeeting(h)
    \/ AttendeeSelect(h)
    \/ AttendeeInsert(h)
    \/ TurnInsert(h)
    \/ SequenceRead(h)
    \/ PlacementInsert(h)

CreateSteps(r) ==
    \/ \E url \in Urls \cup {Undefined}, client \in ClientIds :
           ReceiveCreate(r, url, client)
    \/ \E bot \in BotIds : ProvisionOk(r, bot)
    \/ ProvisionNotOk(r)
    \/ ProvisionThrows(r)
    \/ BlockInsert(r)
    \/ MeetingInsert(r)
    \/ CreateStoreError(r)

HookSteps(w) ==
    \/ \E payload \in Payloads : FetchOk(w, payload)
    \/ FetchFails(w)
    \/ HookUpdate(w)
    \/ HookStoreError(w)

\* Turn events of the two sessions, handled concurrently.
NextTurns ==
    \E h \in Racers :
        \/ \E bot \in BotIds, speaker \in Speakers, text \in Texts :
               ReceiveTurn(h, bot, speaker, text)
        \/ TurnSteps(h)

SpecTurns == InitMeetings /\ [][NextTurns]_vars

\* Turn events of which a session handles one at a time: an event of a session
\* is received only when no handler of that session is in flight.
NextSeq ==
    \E h \in TurnIds :
        \/ \E bot \in BotIds, speaker \in Speakers, text \in Texts :
               /\ \A g \in TurnIds : InFlight(g) => th[g].bot_id # bot
               /\ ReceiveTurn(h, bot, speaker, text)
        \/ TurnSteps(h)

SpecSeq == InitMeetings /\ [][NextSeq]_vars

\* Turn events as they may arrive, handled concurrently: for a known bot or
\* for one no Meeting Record has; with a text, with the empty text or without
\* one; or not JSON at all.  Any query of a handler may be rejected.
TurnBots == {"bot-a", "bot-x"}
TurnTexts == Texts \cup {"", Undefined}

NextTurnsIn ==
    \E h \in Racers :
        \/ \E bot \in TurnBots, speaker \in Speakers, text \in TurnTexts :
               ReceiveTurn(h, bot, speaker, text)
        \/ ReceiveUnparseable(h)
        \/ TurnSteps(h)
        \/ TurnStoreError(h)

SpecTurnsIn == InitMeetings /\ [][NextTurnsIn]_vars

\* Creation requests on an empty database.
NextCreate == \E r \in CreateIds : CreateSteps(r)

SpecCreate == Init /\ [][NextCreate]_vars

\* Lifecycle notifications for the two sessions.
NextHooks ==
    \/ \E w \in HookIds :
        \/ \E bot \in BotIds, status \in Statuses : ReceiveHook(w, bot, status)
        \/ HookSteps(w)
    \/ Tick

SpecHooks == InitMeetings /\ [][NextHooks]_vars

\* Lifecycle notifications applied one after the other: a notification is
\* received only when no webhook handler is in flight.
NextHooksSeq ==
    \/ \E w \in HookIds :
        \/ \E bot \in BotIds, status \in Statuses :
               /\ \A v \in HookIds : wh[v].pc \in {"idle", "done"}
               /\ ReceiveHook(w, bot, status)
        \/ HookSteps(w)
    \/ Tick

SpecHooksSeq == InitMeetings /\ [][NextHooksSeq]_vars

\* Lifecycle notifications where the store always answers, and the transcript
\* fetch may never do: pool.query has its timeouts, the fetch has none.
SpecHooksLive ==
    /\ InitMeetings
    /\ [][NextHooks]_vars
    /\ WF_vars(\E w \in HookIds : HookUpdate(w) \/ HookStoreError(w))

\* Lifecycle notifications as they may arrive: for a known bot, for a bot no
\* Meeting Record has, or without bot id; with a status of the enumeration,
\* another one, or none.  The store answers every query.
HookBots == {"bot-a", "bot-x", Undefined}
HookStatuses == Statuses \cup {"unknown", Undefined}

NextHooksIn ==
    \/ \E w \in HookIds :
        \/ \E bot \in HookBots, status \in HookStatuses : ReceiveHook(w, bot, status)
        \/ \E payload \in Payloads : FetchOk(w, payload)
        \/ FetchFails(w)
        \/ HookUpdate(w)
    \/ Tick

SpecHooksIn == InitMeetings /\ [][NextHooksIn]_vars

\* Turn events and lifecycle notifications of one session: the turn events
\* are handled one at a time and so are the notifications, and the handler of
\* a turn event runs concurrently with the handler of a notification.
SessionBots == {"bot-a"}

NextBoth ==
    \/ \E h \in Racers :
        \/ \E bot \in SessionBots, speaker \in Speakers, text \in Texts :
               /\ \A g \in TurnIds : ~InFlight(g)
               /\ ReceiveTurn(h, bot, speaker, text)
        \/ TurnSteps(h)
    \/ \E w \in HookIds :
        \/ \E bot \in SessionBots, status \in Statuses :
               /\ \A v \in HookIds : wh[v].pc \in {"idle", "done"}
               /\ ReceiveHook(w, bot, status)
        \/ HookSteps(w)

SpecBoth == InitMeetings /\ [][NextBoth]_vars

\* The turn events of one connection, handled concurrently, and the close of
\* the connection.  The store answers every query.
NextClose ==
    \/ \E h \in Racers :
        \/ \E bot \in SessionBots, speaker \in Speakers, text \in Texts :
               ReceiveTurn(h, bot, speaker, text)
        \/ TurnSteps(h)
    \/ Close

SpecClose ==
    /\ InitMeetings
    /\ [][NextClose]_vars
    /\ \A h \in Racers : WF_vars(TurnSteps(h))

\* Turn events of one session, while creation requests and completed
\* notifications of the other session are handled: the events of each kind
\* one at a time, the three kinds concurrently.  The store answers the
\* queries of the turn handlers; nothing makes the provisioning API or the
\* transcript endpoint answer, and the provisioning API, when it answers,
\* refuses.
OtherBots == BotIds \ SessionBots

NextPending ==
    \/ \E h \in Racers :
        \/ \E bot \in SessionBots, speaker \in Speakers, text \in Texts :
               /\ \A g \in TurnIds : ~InFlight(g)
               /\ ReceiveTurn(h, bot, speaker, text)
        \/ TurnSteps(h)
    \/ \E r \in CreateIds :
        \/ \E url \in Urls, client \in ClientIds :
               /\ \A q \in CreateIds : cr[q].pc \in {"idle", "done"}
               /\ ReceiveCreate(r, url, client)
        \/ ProvisionNotOk(r)
        \/ ProvisionThrows(r)
    \/ \E w \in HookIds :
        \/ \E bot \in OtherBots :
               /\ \A v \in HookIds : wh[v].pc \in {"idle", "done"}
               /\ ReceiveHook(w, bot, "completed")
        \/ \E payload \in Payloads : FetchOk(w, payload)
        \/ FetchFails(w)
        \/ HookUpdate(w)

SpecPending ==
    /\ InitMeetings
    /\ [][NextPending]_vars
    /\ \A h \in Racers : WF_vars(TurnSteps(h))

\* The Supabase server's creation requests, all of them handed the bot id of
\* one session by the provisioning API, with the turn events and the
\* notifications (other than completed) of that session: the events of each
\* kind one at a time, the three kinds concurrently.
NextCleanup ==
    \/ \E r \in CreateIds :
        \/ \E url \in Urls, client \in ClientIds :
               /\ \A q \in CreateIds : cr[q].pc \in {"idle", "done"}
               /\ ReceiveCreate(r, url, client)
        \/ \E bot \in SessionBots : ProvisionOk(r, bot)
        \/ BlockInsert(r)
        \/ SbMeetingInsert(r)
        \/ SbCleanup(r)
        \/ SbCleanupError(r)
    \/ \E h \in Racers :
        \/ \E bot \in SessionBots, speaker \in Speakers, text \in Texts :
               /\ \A g \in TurnIds : ~InFlight(g)
               /\ ReceiveTurn(h, bot, speaker, text)
        \/ TurnSteps(h)
    \/ \E w \in HookIds :
        \/ \E bot \in SessionBots, status \in Statuses \ {"completed"} :
               /\ \A v \in HookIds : wh[v].pc \in {"idle", "done"}
               /\ ReceiveHook(w, bot, status)
        \/ HookUpdate(w)

SpecCleanup == Init /\ [][NextCleanup]_vars

\* One run of the migration runner.
NextMigrate ==
    \E ok \in BOOLEAN :
        \/ StartMigration(ok)
        \/ runSchemaMigration(ok)
        \/ TestConnection(ok)
        \/ migrateUsers(ok)
        \/ migrateParticipants(ok)
        \/ migrateBlocks(ok)
        \/ migrateTurns(ok)
        \/ migrateMeetingData(ok)
        \/ resetSequences(ok)
        \/ EndPool(ok)

SpecMigrate == Init /\ [][NextMigrate]_vars

\* The whole server.
Next ==
    \/ \E h \in TurnIds :
        \/ \E bot \in BotIds \cup {"bot-x"}, speaker \in Speakers,
              text \in Texts \cup {"", Undefined} :
               ReceiveTurn(h, bot, speaker, text)
        \/ ReceiveUnparseable(h)
        \/ TurnSteps(h)
        \/ TurnStoreError(h)
    \/ \E r \in CreateIds : CreateSteps(r)
    \/ \E w \in HookIds :
        \/ \E bot \in BotIds \cup {"bot-x", Undefined},
              status \in Statuses \cup {"unknown", Undefined} :
               ReceiveHook(w, bot, status)
        \/ HookSteps(w)
    \/ Tick

Spec == Init /\ [][Next]_vars

\* ------------------------------------------------------------------ claims
\* The handler has stored its Turn and its Placement.
Placed(h) == th[h].pc = "done" /\ th[h].err = "none"

\* The position of the Placement of the handler's Turn.
PositionOf(h) ==
    LET p == CHOOSE q \in block_turns : q.turn_id = th[h].turn_id
    IN  p.sequence_order

SameSession(g, h) == th[g].block_id # 0 /\ th[g].block_id = th[h].block_id

\* C1: no two Placements of a session carry the same position, also when the
\* handlers of two turn events of the session interleave between the read of
\* the maximum and the insert.  (Stated as claimed; the code violates it.)
C1_UniquePositions ==
    \A p, q \in block_turns :
        (p.block_id = q.block_id /\ p.sequence_order = q.sequence_order) => p = q

\* C2: of two turn events of a session that are both appended, the one received
\* first has the strictly smaller position, even when their handlers overlap.
\* (Stated as claimed; the code violates it.)
C2_ReceiptOrder ==
    \A g, h \in TurnIds :
        (g < h /\ Placed(g) /\ Placed(h) /\ SameSession(g, h))
            => PositionOf(g) < PositionOf(h)

\* C3: when the turns of a session are appended one at a time, each receives
\* 1 + the maximum position of the session (1 when it has none): the k-th
\* append of the session has position k, whatever the other sessions do.
C3_SequentialPositions ==
    \A h \in TurnIds :
        /\ th[h].pc = "placeInsert" => th[h].next_order = NextOrder(th[h].block_id)
        /\ Placed(h) =>
              PositionOf(h) =
                 1 + Cardinality({g \in TurnIds : g < h /\ Placed(g) /\ SameSession(g, h)})

\* Two appends of one session got 1 and 2 while an event of the other session,
\* received before the second, is still being handled.
C3_Witness ==
    \E g, h, k \in TurnIds :
        /\ g < h /\ k < h
        /\ Placed(g) /\ Placed(h) /\ SameSession(g, h)
        /\ PositionOf(g) = 1 /\ PositionOf(h) = 2
        /\ InFlight(k) /\ th[k].bot_id # th[h].bot_id

\* C4: there is at most one Attendee per (session, name), and all resolutions
\* of a label in a session that return, return that one Attendee.
C4_OneAttendeePerName ==
    /\ \A a, b \in block_attendees :
          (a.block_id = b.block_id /\ a.name = b.name) => a = b
    /\ \A g, h \in TurnIds :
          (/\ th[g].attendee # 0 /\ th[h].attendee # 0
           /\ SameSession(g, h) /\ th[g].speaker = th[h].speaker)
              => th[g].attendee = th[h].attendee

\* Two resolutions of one label in one session raced: both attempted the
\* insert, one created the Attendee, the other hit the unique index.
C4_Witness ==
    \E g, h \in TurnIds :
        /\ g # h /\ SameSession(g, h) /\ th[g].speaker = th[h].speaker
        /\ th[g].attendee # 0
        /\ th[h].err = "duplicate attendee"

\* C5: a resolution whose insert hits the uniqueness conflict returns the
\* existing Attendee: every resolution that has returned holds the Attendee
\* of its (session, label).  (Stated as claimed; the code violates it.)
C5_ConflictReturnsExisting ==
    \A h \in TurnIds :
        (th[h].block_id # 0 /\ th[h].pc \notin {"attSelect", "attInsert"})
            => \E a \in AttendeeRows(th[h].block_id, th[h].speaker) :
                   th[h].attendee = a.id

\* C6: applying the same (bot id, status) event a second time leaves status,
\* end timestamp and final transcript of the Meeting Record as the first
\* application left them.  A record in status s has had an s event (or, for
\* joining, its creation) applied last; the second application is taken with
\* the transcript fetch failing or answering what is stored already, so that
\* only the handler decides.  (Stated as claimed; the code violates it for
\* completed.)
C6_Idempotent ==
    [][\A w \in HookIds : \A m \in block_meetings :
          (/\ wh[w].pc = "update" /\ wh'[w].resp = "200 OK"
           /\ m.recall_bot_id = wh[w].bot_id /\ m.status = wh[w].status
           /\ wh[w].full_transcript \in {Undefined, m.full_transcript})
              => \E n \in block_meetings' :
                    /\ n.block_id = m.block_id
                    /\ n.status = m.status
                    /\ n.ended_at = m.ended_at
                    /\ n.full_transcript = m.full_transcript]_vars

\* C7: completed and failed are terminal: no step changes the status of a
\* Meeting Record that is completed or failed.  (Stated as claimed; the code
\* violates it.)
C7_TerminalStatus ==
    [][\A m \in block_meetings :
          m.status \in {"completed", "failed"}
              => \E n \in block_meetings' :
                    n.block_id = m.block_id /\ n.status = m.status]_vars

\* C8: after every finished creation request, each Session it created has a
\* Meeting Record (or was deleted).  (Stated as claimed; the code violates it.)
C8_NoOrphanSession ==
    \A r \in CreateIds :
        (cr[r].pc = "done" /\ cr[r].block_id \in blocks)
            => \E m \in block_meetings : m.block_id = cr[r].block_id

\* C9: a failed provisioning call leaves the store unchanged and its request
\* creates nothing; every Session was inserted by a request whose provisioning
\* had succeeded, and every Meeting Record by a request whose Session exists.
ProvisionFailed(r) ==
    cr[r].pc = "done" /\ cr[r].meeting_url # Undefined /\ cr[r].bot_id = Undefined

C9_ProvisionFirst ==
    /\ [](\A r \in CreateIds : ProvisionFailed(r) => cr[r].block_id = 0)
    /\ [](\A b \in blocks : \E r \in CreateIds :
              cr[r].block_id = b /\ cr[r].bot_id \in bots)
    /\ [](\A m \in block_meetings :
              /\ m.block_id \in blocks
              /\ \E r \in CreateIds :
                    cr[r].block_id = m.block_id /\ cr[r].bot_id = m.recall_bot_id)
    /\ [][\A r \in CreateIds :
              (cr[r].pc = "provision" /\ cr'[r].pc = "done") => store' = store]_vars

\* One request failed at provisioning, another went through to its Meeting
\* Record.
C9_Witness ==
    \E r, q \in CreateIds :
        /\ ProvisionFailed(r)
        /\ cr[q].resp = "200 bot, meeting_block, meeting"
        /\ \E m \in block_meetings : m.block_id = cr[q].block_id

\* C10: a request without meeting_url is answered 400 and does nothing else:
\* it provisions no bot and creates no Session and no Meeting Record.
C10_MissingUrlRejected ==
    /\ \A r \in CreateIds :
          (cr[r].pc # "idle" /\ cr[r].meeting_url = Undefined)
              => /\ cr[r].pc = "done"
                 /\ cr[r].resp = "400 meeting_url is required"
                 /\ cr[r].bot_id = Undefined
                 /\ cr[r].block_id = 0
    /\ bots \subseteq {cr[r].bot_id : r \in {q \in CreateIds : cr[q].meeting_url # Undefined}}
    /\ blocks \subseteq {cr[r].block_id : r \in {q \in CreateIds : cr[q].meeting_url # Undefined}}
    /\ \A m \in block_meetings : m.meeting_url # Undefined

\* A request without meeting_url was rejected after another had created its
\* Session and Meeting Record.
C10_Witness ==
    \E r, q \in CreateIds :
        /\ q < r
        /\ cr[r].resp = "400 meeting_url is required"
        /\ cr[q].resp = "200 bot, meeting_block, meeting"
        /\ Cardinality(blocks) = 1 /\ Cardinality(block_meetings) = 1


\* The handler w returns from its UPDATE in this step.
UpdateReturns(w) == wh[w].pc = "update" /\ wh'[w].pc = "done"

\* C11: a failed transcript fetch does not end the handler, and the UPDATE that
\* follows makes the record completed with its end timestamp, leaves the
\* transcript as it was and is acknowledged with OK (unless the store rejects
\* the UPDATE itself, which leaves the store as it was).
C11_FetchFailureKeepsUpdate ==
    [][\A w \in HookIds :
          /\ (wh[w].pc = "fetch" /\ wh'[w].pc # "fetch"
                  /\ wh'[w].full_transcript = Undefined)
                => /\ wh'[w].pc = "update"
                   /\ wh'[w].status = "completed"
                   /\ wh'[w].ended_at # 0
          /\ (UpdateReturns(w) /\ wh[w].status = "completed"
                  /\ wh[w].full_transcript = Undefined)
                => \/ /\ wh'[w].resp = "200 OK"
                      /\ \A m \in MeetingRows(wh[w].bot_id) :
                            \E n \in block_meetings' :
                               /\ n.block_id = m.block_id
                               /\ n.status = "completed"
                               /\ n.ended_at = wh[w].ended_at /\ n.ended_at # 0
                               /\ n.full_transcript = m.full_transcript
                   \/ /\ wh'[w].resp = "500 Error processing webhook"
                      /\ store' = store]_vars

\* A completed event whose fetch failed has been applied and acknowledged: the
\* record is completed, ended, and has no transcript.
C11_Witness ==
    /\ \E m \in block_meetings :
          m.status = "completed" /\ m.ended_at # 0 /\ m.full_transcript = Undefined
    /\ \E w \in HookIds : wh[w].resp = "200 OK"

\* C12: a completed event on an existing Meeting Record is eventually answered
\* (its UPDATE made), also when the transcript fetch never responds.  (Stated
\* as claimed; the code violates it.)
C12_FetchDoesNotBlock ==
    \A w \in HookIds : (wh[w].pc = "fetch") ~> (wh[w].pc = "done")

\* C13: a completed event whose fetch succeeded leaves the record completed,
\* with its end timestamp and with the fetched payload as final transcript.
C13_CompletedStoresTranscript ==
    [][\A w \in HookIds :
          (UpdateReturns(w) /\ wh'[w].resp = "200 OK"
              /\ wh[w].status = "completed" /\ wh[w].full_transcript # Undefined)
            => \A m \in MeetingRows(wh[w].bot_id) :
                  \E n \in block_meetings' :
                     /\ n.block_id = m.block_id
                     /\ n.status = "completed"
                     /\ n.ended_at = wh[w].ended_at /\ n.ended_at # 0
                     /\ n.full_transcript = wh[w].full_transcript
                     /\ n.full_transcript \in Payloads]_vars

\* A completed event whose fetch succeeded has been applied.
C13_Witness ==
    \E m \in block_meetings :
        m.status = "completed" /\ m.ended_at # 0 /\ m.full_transcript \in Payloads


\* C14: a lifecycle event whose bot id no Meeting Record has changes nothing
\* in the store and is acknowledged with OK.
C14_UnknownBotNoOp ==
    [][\A w \in HookIds :
          (UpdateReturns(w) /\ MeetingRows(wh[w].bot_id) = {})
              => store' = store /\ wh'[w].resp = "200 OK"]_vars

\* An event for an unknown bot was acknowledged, and a later event for a known
\* bot was applied.
C14_Witness ==
    \E v, w \in HookIds :
        /\ v < w
        /\ wh[v].pc = "done" /\ wh[v].bot_id = "bot-x" /\ wh[v].resp = "200 OK"
        /\ wh[w].pc = "done" /\ wh[w].bot_id = "bot-a" /\ wh[w].status = "in_progress"
        /\ \E m \in MeetingRows("bot-a") : m.status = "in_progress"
        /\ Cardinality(block_meetings) = 2


\* C15: a turn event whose bot id no Meeting Record has is dropped at the
\* lookup without a write: its handler holds no Attendee and no Turn, and no
\* Turn in the store comes from such an event; later events are handled.
C15_UnknownBotDropped ==
    /\ \A h \in TurnIds :
          /\ th[h].err = "no meeting"
                => /\ th[h].pc = "done" /\ MeetingRows(th[h].bot_id) = {}
                   /\ th[h].block_id = 0 /\ th[h].attendee = 0 /\ th[h].turn_id = 0
          /\ (th[h].pc \notin {"idle", "lookup"} /\ th[h].bot_id # Undefined
                  /\ MeetingRows(th[h].bot_id) = {})
                => th[h].pc = "done" /\ th[h].err \in {"no meeting", "store error"}
                   /\ th[h].attendee = 0 /\ th[h].turn_id = 0
    /\ \A t \in turns : MeetingRows(t.bot_id) # {}
    /\ \A a \in block_attendees : a.block_id \in blocks
    /\ \A p \in block_turns : p.block_id \in blocks

\* An event for an unknown bot was dropped and a later event was appended.
C15_Witness ==
    \E g, h \in TurnIds :
        g < h /\ th[g].err = "no meeting" /\ th[g].bot_id = "bot-x" /\ Placed(h)

\* C16: a turn event whose text is empty or missing leaves no Turn (and so no
\* Placement) once its handler has finished.  (Stated as claimed; the code
\* violates it for the empty string.)
C16_EmptyTextRejected ==
    \A h \in TurnIds :
        (th[h].pc = "done" /\ th[h].bot_id # Undefined /\ th[h].text \in {"", Undefined})
            => /\ th[h].turn_id = 0
               /\ \A t \in turns : t.content # ""

\* C17: the handler of a turn event that is rejected for its content changes
\* nothing in the store; taken for the missing text, which the code does
\* reject.  (Stated as claimed; the code violates it.)
C17_RejectionMutatesNothing ==
    [][\A h \in TurnIds :
          (th[h].pc # "idle" /\ th[h].text = Undefined /\ th'[h] # th[h])
              => store' = store]_vars

\* C18: a failure is confined to its event: a finished handler has failed only
\* for a reason of its own (its message, its bot id, its text, its queries),
\* and otherwise has stored its Turn and Placement.
C18_FailureConfined ==
    \A h \in TurnIds :
        th[h].pc = "done" =>
            \/ /\ th[h].err = "none"
               /\ \E t \in turns : t.turn_id = th[h].turn_id
               /\ \E p \in block_turns :
                     p.turn_id = th[h].turn_id /\ p.block_id = th[h].block_id
            \/ th[h].err = "parse" /\ th[h].bot_id = Undefined
            \/ th[h].err = "no meeting" /\ MeetingRows(th[h].bot_id) = {}
            \/ th[h].err = "null content" /\ th[h].text = Undefined
            \/ /\ th[h].err = "duplicate attendee"
               /\ AttendeeRows(th[h].block_id, th[h].speaker) # {}
            \/ th[h].err = "store error" /\ th[h].bot_id # Undefined

\* A handler failed half-way (its Turn stored, its Placement not) and the next
\* event of the session was appended.
C18_Witness ==
    \E g, h \in TurnIds :
        /\ g < h /\ SameSession(g, h)
        /\ th[g].pc = "done" /\ th[g].err = "store error" /\ th[g].turn_id # 0
        /\ Placed(h)


\* C19: a Session has at most one Meeting Record, every Meeting Record
\* references an existing Session, and no two Meeting Records share a bot id.
C19_MeetingRecordKeys ==
    /\ \A m, n \in block_meetings : m.block_id = n.block_id => m = n
    /\ \A m \in block_meetings : m.block_id \in blocks
    /\ \A m, n \in block_meetings : m.recall_bot_id = n.recall_bot_id => m = n
    /\ \A bot \in BotIds : Cardinality(MeetingRows(bot)) <= 1

\* Two finished requests were handed the same bot id and each created its
\* Session; one Meeting Record carries the bot id.
C19_Witness ==
    \E r, q \in CreateIds :
        /\ r # q /\ cr[r].pc = "done" /\ cr[q].pc = "done"
        /\ cr[r].bot_id # Undefined /\ cr[r].bot_id = cr[q].bot_id
        /\ cr[r].block_id \in blocks /\ cr[q].block_id \in blocks
        /\ cr[r].block_id # cr[q].block_id
        /\ Cardinality(MeetingRows(cr[r].bot_id)) = 1

\* C20: a request answered with success has created a Meeting Record that is
\* in status joining, belongs to the Session of the request and carries the
\* bot id the provisioning call of the request returned; and every Meeting
\* Record is the one of such a request.
C20_CreatedJoining ==
    /\ \A r \in CreateIds :
          cr[r].resp = "200 bot, meeting_block, meeting"
              => /\ cr[r].bot_id \in bots /\ cr[r].block_id \in blocks
                 /\ \E m \in block_meetings :
                       /\ m.block_id = cr[r].block_id
                       /\ m.recall_bot_id = cr[r].bot_id
                       /\ m.meeting_url = cr[r].meeting_url
                       /\ m.invited_by_user_id = cr[r].client_id
                       /\ m.status = "joining"
    /\ \A m \in block_meetings :
          /\ m.status = "joining"
          /\ \E r \in CreateIds :
                /\ cr[r].resp = "200 bot, meeting_block, meeting"
                /\ cr[r].block_id = m.block_id /\ cr[r].bot_id = m.recall_bot_id

\* Two requests were answered with success, each with its own Session, bot id
\* and Meeting Record.
C20_Witness ==
    /\ Cardinality(block_meetings) = 2
    /\ \A r \in {1, 2} : cr[r].resp = "200 bot, meeting_block, meeting"


\* The request got past provisioning and then failed at one of its inserts.
PersistenceFailed(r) ==
    /\ cr[r].pc = "done" /\ cr[r].bot_id # Undefined
    /\ cr[r].resp # "200 bot, meeting_block, meeting"

\* C21: a failed creation request is answered with one error that tells the
\* failing stage: the answer to a request that failed at provisioning differs
\* from the answer to a request that failed at persistence, and neither is
\* the success payload.  (Stated as claimed; the code violates it.)
C21_StageIdentified ==
    \A r, q \in CreateIds :
        /\ (ProvisionFailed(r) \/ PersistenceFailed(r))
              => cr[r].resp \notin {"none", "200 bot, meeting_block, meeting"}
        /\ (ProvisionFailed(r) /\ PersistenceFailed(q)) => cr[r].resp # cr[q].resp


\* The notifications that have been applied to the store.
Applied == {w \in HookIds : wh[w].resp = "200 OK"}

\* C22: lifecycle handling and turn handling write disjoint state.  A step of
\* a lifecycle handler leaves Sessions, Attendees, Turns and Placements as
\* they are, and leaves what a turn handler reads of a Meeting Record (the
\* Session of the bot id) as it is; a step of a turn handler leaves Sessions
\* and Meeting Records as they are.  So the outcome of each is the one of
\* running it alone: each appended turn has the position of its rank among
\* the appended turns, and the Meeting Record has the status of the last
\* notification applied.
C22_DisjointWrites ==
    /\ [][wh' # wh => /\ UNCHANGED <<blocks, block_attendees, turns, block_turns, seqs>>
                      /\ \A bot \in SessionBots :
                            {m.block_id : m \in MeetingRows(bot)}' =
                            {m.block_id : m \in MeetingRows(bot)}]_vars
    /\ [][th' # th => UNCHANGED <<blocks, block_meetings>>]_vars
    /\ [](\A h \in TurnIds :
            Placed(h) => PositionOf(h) =
                            1 + Cardinality({g \in TurnIds : g < h /\ Placed(g)}))
    /\ [](Applied # {} =>
            \A bot \in SessionBots : \A m \in MeetingRows(bot) :
                m.status = wh[SetMax(Applied)].status)

\* The handler of a turn event holds its stored Turn while the handler of a
\* notification for the same session is about to write the Meeting Record,
\* after an earlier turn was appended and an earlier notification applied.
C22_Witness ==
    \E g, h \in TurnIds, w \in HookIds :
        /\ Placed(g)
        /\ th[h].pc = "placeInsert"
        /\ wh[w].pc = "update" /\ wh[w].bot_id = th[h].bot_id
        /\ Applied # {}


\* C23: the final transcript of a Meeting Record is written at most once: an
\* UPDATE that carries a transcript is applied only to a record that has
\* none.  (Stated as claimed; the code violates it.)
C23_TranscriptWrittenOnce ==
    [][\A w \in HookIds : \A m \in block_meetings :
          (/\ UpdateReturns(w) /\ wh'[w].resp = "200 OK"
           /\ wh[w].full_transcript # Undefined
           /\ m.recall_bot_id = wh[w].bot_id)
              => m.full_transcript = Undefined]_vars


\* C24: no step of a lifecycle or turn handler changes the bot id, the Session
\* link, the meeting URL or the requesting user of a Meeting Record, nor adds
\* or removes a Meeting Record: a step changes at most status, end timestamp,
\* final transcript and update timestamp.
C24_BotIdImmutable ==
    [][/\ Cardinality(block_meetings') = Cardinality(block_meetings)
       /\ \A m \in block_meetings : \E n \in block_meetings' :
             /\ n.block_id = m.block_id
             /\ n.recall_bot_id = m.recall_bot_id
             /\ n.meeting_url = m.meeting_url
             /\ n.invited_by_user_id = m.invited_by_user_id]_vars

\* A Meeting Record has gone through to completed with its transcript, turns
\* of its session were appended, and it has the keys it was created with.
C24_Witness ==
    \E m \in block_meetings, h \in TurnIds :
        /\ m.status = "completed" /\ m.full_transcript \in Payloads
        /\ Placed(h) /\ th[h].block_id = m.block_id /\ th[h].bot_id = m.recall_bot_id
        /\ m \in {[NewMeeting(b, bot, url, client) EXCEPT
                       !.status = m.status, !.full_transcript = m.full_transcript,
                       !.ended_at = m.ended_at, !.updated_at = m.updated_at] :
                    b \in blocks, bot \in BotIds, url \in Urls, client \in ClientIds}


\* C25: the status of every Meeting Record is one of joining, in_progress,
\* completed, failed, whatever status the notifications carry.  (Stated as
\* claimed; the code violates it.)
C25_StatusEnumerated == \A m \in block_meetings : m.status \in Statuses


\* The connection has been closed.
Closed == \E g \in TurnIds : th[g].pc = "closed"

\* C26: a dropped connection rolls back nothing.  The close changes neither
\* the store nor a handler in flight; no step removes an Attendee, a Turn or
\* a Placement; no event is received after the close; and a handler in flight
\* at the close goes on to its end, one that holds its Attendee on to its
\* stored Turn and Placement.
C26_CloseRollsBackNothing ==
    /\ [][(\E g \in TurnIds : th[g].pc # "closed" /\ th'[g].pc = "closed")
            => /\ store' = store
               /\ \A h \in TurnIds : InFlight(h) => th'[h] = th[h]]_vars
    /\ [][/\ block_attendees \subseteq block_attendees'
          /\ turns \subseteq turns'
          /\ block_turns \subseteq block_turns']_vars
    /\ [][\A g \in TurnIds : th[g].pc = "closed" => th'[g] = th[g]]_vars
    /\ \A h \in TurnIds : (Closed /\ InFlight(h)) ~> (th[h].pc = "done")
    /\ \A h \in TurnIds :
          (Closed /\ th[h].pc \in {"turnInsert", "seqRead", "placeInsert"})
              ~> (/\ Placed(h)
                  /\ \E t \in turns : t.turn_id = th[h].turn_id
                  /\ \E p \in block_turns : p.turn_id = th[h].turn_id)

\* The connection is closed while a handler holds its stored Turn and has its
\* Placement still to insert.
C26_Witness ==
    \E g, h \in TurnIds :
        /\ th[g].pc = "closed"
        /\ th[h].pc = "placeInsert"
        /\ \E t \in turns : t.turn_id = th[h].turn_id


\* A provisioning call, or a transcript fetch of another session than the one
\* of the handler h, is awaited.
PendingCall(h) ==
    \/ \E r \in CreateIds : cr[r].pc = "provision"
    \/ \E w \in HookIds : wh[w].pc = "fetch" /\ wh[w].bot_id # th[h].bot_id

\* C27: a pending provisioning call or transcript fetch does not block the
\* turn events of other sessions: while one is awaited, the next step of a
\* turn handler in flight can be taken, and the handler in flight (there is
\* one at a time) gets to its end also when the call is never answered.
C27_PendingCallsDoNotBlock ==
    /\ [](\A h \in TurnIds : (PendingCall(h) /\ InFlight(h)) => ENABLED TurnSteps(h))
    /\ (\E h \in TurnIds : PendingCall(h) /\ InFlight(h))
           ~> (\A h \in TurnIds : ~InFlight(h))
    /\ [](\A h \in TurnIds :
            (th[h].pc = "done" /\ th[h].err = "none")
                => \E p \in block_turns :
                      p.turn_id = th[h].turn_id /\ p.block_id = th[h].block_id)

\* A provisioning call and a transcript fetch of the other session are awaited
\* while one turn of the session has been appended and the handler of the
\* next holds its stored Turn.
C27_Witness ==
    \E g, h \in TurnIds, r \in CreateIds, w \in HookIds :
        /\ cr[r].pc = "provision"
        /\ wh[w].pc = "fetch" /\ wh[w].bot_id # th[h].bot_id
        /\ Placed(g)
        /\ th[h].pc = "placeInsert"


\* C28: an Attendee belongs to the session of the turn that created it, has
\* the speaker label of that turn as its name, a narrative made of the label,
\* no speaking time and no linked user; it is created when the label has no
\* Attendee in the session; and a resolution that finds the Attendee of its
\* label returns it and leaves the Attendees as they are.
C28_AttendeeOnFirstSight ==
    /\ [](\A a \in block_attendees :
            /\ a.block_id \in blocks
            /\ a.story = <<a.name, " joined the meeting.">>
            /\ a.speaking_time_seconds = 0
            /\ a.user_id = 0
            /\ \E h \in TurnIds :
                  /\ th[h].attendee = a.id
                  /\ th[h].block_id = a.block_id /\ th[h].speaker = a.name)
    /\ [][\A h \in TurnIds :
            (th[h].pc = "attInsert" /\ th'[h].pc = "turnInsert")
                => /\ AttendeeRows(th[h].block_id, th[h].speaker) = {}
                   /\ \E a \in block_attendees' :
                         /\ block_attendees' = block_attendees \cup {a}
                         /\ a \notin block_attendees
                         /\ a.block_id = th[h].block_id /\ a.name = th[h].speaker
                         /\ th'[h].attendee = a.id]_vars
    /\ [][\A h \in TurnIds :
            (th[h].pc = "attSelect" /\ th'[h].pc = "turnInsert")
                => /\ block_attendees' = block_attendees
                   /\ \E a \in AttendeeRows(th[h].block_id, th[h].speaker) :
                         th'[h].attendee = a.id]_vars

\* Two turns of one speaker in one session were appended: the first created
\* the Attendee, the second found it, and the session has that one Attendee
\* for the label.
C28_Witness ==
    \E g, h \in TurnIds :
        /\ g < h /\ SameSession(g, h) /\ th[g].speaker = th[h].speaker
        /\ Placed(g) /\ Placed(h)
        /\ th[g].attendee # 0 /\ th[g].attendee = th[h].attendee
        /\ Cardinality(AttendeeRows(th[h].block_id, th[h].speaker)) = 1


\* C29: no Session that has a Meeting Record is deleted, and no Meeting Record
\* is.  A Session that is deleted is the one a creation request has created
\* and is cleaning up after its Meeting Record insert failed; a step of a
\* turn or lifecycle handler deletes nothing.
C29_NoSessionWithRecordDeleted ==
    /\ [][\A b \in blocks \ blocks' :
            /\ \A m \in block_meetings : m.block_id # b
            /\ \E r \in CreateIds :
                  /\ cr[r].pc = "cleanup" /\ cr[r].block_id = b
                  /\ cr'[r].resp = "500 Failed to create meeting record"]_vars
    /\ [][\A m \in block_meetings :
            \E n \in block_meetings' : n.block_id = m.block_id]_vars
    /\ [][(th' # th \/ wh' # wh)
            => /\ blocks \subseteq blocks'
               /\ block_attendees \subseteq block_attendees'
               /\ turns \subseteq turns'
               /\ block_turns \subseteq block_turns']_vars

\* A request whose Meeting Record insert failed on the bot id of an existing
\* session has deleted its own Session; the existing session has its Meeting
\* Record, a turn and an applied notification.
C29_Witness ==
    \E r, q \in CreateIds, h \in TurnIds :
        /\ cr[r].resp = "500 Failed to create meeting record"
        /\ cr[r].block_id \notin blocks
        /\ cr[q].resp = "200 bot, meeting_block, meeting"
        /\ cr[q].bot_id = cr[r].bot_id
        /\ cr[q].block_id \in blocks
        /\ \E m \in block_meetings :
              m.block_id = cr[q].block_id /\ m.status # "joining"
        /\ Placed(h) /\ th[h].block_id = cr[q].block_id


\* C30: a notification without bot id is acknowledged with OK on receipt: it
\* changes nothing in the store, awaits no transcript fetch and no UPDATE,
\* and builds no update data.
C30_NoBotIdAcknowledged ==
    /\ [](\A w \in HookIds :
            (wh[w].pc # "idle" /\ wh[w].bot_id = Undefined)
                => /\ wh[w].pc = "done" /\ wh[w].resp = "200 OK"
                   /\ wh[w].full_transcript = Undefined /\ wh[w].ended_at = 0)
    /\ [][\A w \in HookIds :
            (wh[w].pc = "idle" /\ wh'[w].pc # "idle" /\ wh'[w].bot_id = Undefined)
                => store' = store /\ wh'[w].pc = "done"]_vars

\* A notification without bot id was acknowledged, with both Meeting Records
\* as they were created, before a notification for a known bot was applied.
C30_Witness ==
    \E v, w \in HookIds :
        /\ v < w
        /\ wh[v].pc = "done" /\ wh[v].bot_id = Undefined /\ wh[v].resp = "200 OK"
        /\ wh[w].pc = "update" /\ wh[w].bot_id = "bot-a"
        /\ block_meetings = {NewMeeting(b, bot, url, client) :
                               b \in blocks, bot \in BotIds,
                               url \in Urls, client \in ClientIds}
                            \cap block_meetings
        /\ Cardinality(block_meetings) = Cardinality(BotIds)


\* C31: no step clears a stored final transcript: a Meeting Record that has
\* one keeps having one, and an UPDATE that carries no transcript (an event
\* other than completed, or a completed event whose fetch failed) leaves the
\* stored transcript as it is.
C31_TranscriptNotCleared ==
    [][\A m \in block_meetings :
          m.full_transcript # Undefined
              => \E n \in block_meetings' :
                    /\ n.block_id = m.block_id
                    /\ n.full_transcript # Undefined
                    /\ (\A w \in HookIds :
                           (UpdateReturns(w) /\ wh[w].bot_id = m.recall_bot_id)
                               => wh[w].full_transcript = Undefined)
                          => n.full_transcript = m.full_transcript]_vars

\* A record with a stored transcript has had a later event applied that
\* carried none: it is failed, or in progress, and has its transcript.
C31_Witness ==
    \E m \in block_meetings :
        /\ m.full_transcript \in Payloads
        /\ m.status \in {"failed", "in_progress"}
        /\ \E w \in HookIds :
              /\ wh[w].resp = "200 OK"
              /\ wh[w].bot_id = m.recall_bot_id /\ wh[w].status = m.status


\* A completed event for the bot id has been received.
CompletedReceived(bot) ==
    \E w \in HookIds :
        wh[w].pc # "idle" /\ wh[w].bot_id = bot /\ wh[w].status = "completed"

\* C32: a Meeting Record in status completed has its end timestamp, and a
\* Meeting Record for which no completed event was received has none.
C32_EndedIffCompleted ==
    \A m \in block_meetings :
        /\ m.status = "completed" => m.ended_at # 0
        /\ ~CompletedReceived(m.recall_bot_id) => m.ended_at = 0

\* One record is completed and has its end timestamp; the other has had an
\* event other than completed applied and has none.
C32_Witness ==
    \E m, n \in block_meetings :
        /\ m.status = "completed" /\ m.ended_at # 0
        /\ n.status \in {"in_progress", "failed"} /\ n.ended_at = 0
        /\ ~CompletedReceived(n.recall_bot_id)


\* C33: lifecycle events for one bot take effect in the order of their
\* receipt: when a completed event and an event received after it for the
\* same Meeting Record have both been applied, and none was received after
\* them, the record has the status of the one received last.  (Stated as
\* claimed; the code violates it.)
C33_LastEventWins ==
    \A v, w \in HookIds :
        (/\ v < w /\ wh[v].status = "completed"
         /\ wh[v].resp = "200 OK" /\ wh[w].resp = "200 OK"
         /\ wh[v].bot_id = wh[w].bot_id
         /\ \A u \in HookIds :
               (u > w /\ wh[u].pc # "idle") => wh[u].bot_id # wh[w].bot_id)
            => \A m \in MeetingRows(wh[w].bot_id) : m.status = wh[w].status


\* C34: no accepted turn is lost: with a store that answers every query, the
\* handler of a turn event for a known bot with a non-empty text ends with
\* one Turn and one Placement of its own, also when it ran concurrently with
\* another event of the session naming the same new speaker.  (Stated as
\* claimed; the code violates it.)
C34_NoAcceptedTurnLost ==
    \A h \in TurnIds :
        (th[h].pc = "done" /\ MeetingRows(th[h].bot_id) # {} /\ th[h].text \in Texts)
            => /\ th[h].err = "none"
               /\ Cardinality({t \in turns : t.turn_id = th[h].turn_id}) = 1
               /\ Cardinality({p \in block_turns :
                                 p.turn_id = th[h].turn_id
                                 /\ p.block_id = th[h].block_id}) = 1

\* C35: a Turn and its Placement are created together: when no turn handler
\* is in flight, every Turn has exactly one Placement, also after a failure
\* of the position read or of the Placement insert.  (Stated as claimed; the
\* code violates it.)
C35_TurnHasPlacement ==
    (\A h \in TurnIds : ~InFlight(h))
        => \A t \in turns :
              Cardinality({p \in block_turns : p.turn_id = t.turn_id}) = 1


\* C36: for every placed Turn, the Attendee who is its speaker belongs to the
\* session of the Placement, and that session is the one of the Meeting
\* Record of the bot id of the event.
C36_SpeakerInSession ==
    \A p \in block_turns :
        \E t \in turns :
            /\ t.turn_id = p.turn_id
            /\ \E a \in block_attendees :
                  a.id = t.participant_id /\ a.block_id = p.block_id
            /\ \E m \in MeetingRows(t.bot_id) : m.block_id = p.block_id

\* Turns of a speaker of the same name were placed in both sessions, each
\* with the Attendee of its own session.
C36_Witness ==
    \E g, h \in TurnIds :
        /\ Placed(g) /\ Placed(h)
        /\ th[g].speaker = th[h].speaker
        /\ th[g].block_id # th[h].block_id
        /\ th[g].attendee # th[h].attendee
        /\ \A k \in {g, h} : \E p \in block_turns :
              p.turn_id = th[k].turn_id /\ p.block_id = th[k].block_id


\* C37: the runner reports the full success only if the schema migration
\* and every step of the data migration succeeded, and after a failed schema
\* migration no step of the data migration is started.  (Stated as claimed;
\* the code violates the first part.)
C37_SuccessOnlyIfAllSucceeded ==
    /\ mg.report = "Full migration completed successfully"
          => mg.schema = "ok" /\ mg.ran = DataSteps /\ mg.failed = {}
    /\ mg.schema = "failed"
          => mg.ran = {} /\ mg.pc = "done" /\ mg.report = "exit 1"

====
